---- MODULE Spec2Model ----
(***************************************************************************)
(* A model of the chunk / embed / index / retrieve pipeline of             *)
(* DocumentSearch: RAGProcessor (rag_processor.py), the document table of  *)
(* PDFProcessor (pdf_processor.py) and the "Save to Database" handler of   *)
(* app.py.                                                                 *)
(*                                                                         *)
(* Strings are sequences of one-character strings, so that str.split,      *)
(* ' '.join and str.strip are modelled by what they do.                    *)
(***************************************************************************)
EXTENDS Integers, Sequences, FiniteSets, TLC

(***************************************************************************)
(* Bounds of the model.                                                    *)
(***************************************************************************)
MaxLen == 5
MaxChunkSize == 4

(***************************************************************************)
(* Program constants.                                                      *)
(***************************************************************************)
DefaultChunkSize == 500
DefaultOverlap == 50

VARIABLES
    \* The chunker called on its own.
    text,             \* chunk_text: the text argument
    chunk_size,       \* chunk_text: the chunk_size argument
    overlap,          \* chunk_text: the overlap argument
    chunked,          \* chunk_text: what the call gave, [exc, chunks]
    pc,               \* "call" before chunk_text has run, "done" after
    \* The application: documents.db and the two derived files.
    documents,        \* table documents, in rowid order
    document_chunks,  \* table document_chunks, in rowid order
    embeddings,       \* table embeddings, in rowid order
    index_file,       \* the file faiss_index.idx
    chunks_file,      \* the file document_chunks.pkl
    builds,           \* how many rebuilds have started writing the files
    faults,           \* how many handlers have met a failure so far
    call,             \* the last handler that ran, with its inputs
    result            \* what that handler gave its caller

chunker_vars == <<text, chunk_size, overlap, chunked, pc>>
store_vars == <<documents, document_chunks, embeddings, index_file, chunks_file, builds>>
vars == <<chunker_vars, store_vars, faults, call, result>>

(***************************************************************************)
(* Python's string and sequence primitives.                                *)
(***************************************************************************)
Whitespace == {" ", "\n", "\t"}

Min(a, b) == IF a < b THEN a ELSE b

RECURSIVE SplitFrom(_, _, _, _)
SplitFrom(s, i, cur, acc) ==
    IF i > Len(s)
    THEN IF cur = <<>> THEN acc ELSE Append(acc, cur)
    ELSE IF s[i] \in Whitespace
         THEN SplitFrom(s, i + 1, <<>>, IF cur = <<>> THEN acc ELSE Append(acc, cur))
         ELSE SplitFrom(s, i + 1, Append(cur, s[i]), acc)

\* str.split(): the maximal runs of non-whitespace characters, in order.
split(s) == SplitFrom(s, 1, <<>>, <<>>)

RECURSIVE join(_)
\* ' '.join(ws)
join(ws) ==
    IF ws = <<>> THEN <<>>
    ELSE IF Len(ws) = 1 THEN ws[1]
    ELSE ws[1] \o <<" ">> \o join(Tail(ws))

RECURSIVE lstrip(_)
lstrip(s) ==
    IF s # <<>> /\ Head(s) \in Whitespace THEN lstrip(Tail(s)) ELSE s

RECURSIVE rstrip(_)
rstrip(s) ==
    IF s # <<>> /\ s[Len(s)] \in Whitespace
    THEN rstrip(SubSeq(s, 1, Len(s) - 1))
    ELSE s

\* str.strip()
strip(s) == rstrip(lstrip(s))

\* seq[lo:hi] for 0 <= lo, 0 <= hi (0-based, hi exclusive, clipped to the end).
slice(seq, lo, hi) == SubSeq(seq, lo + 1, Min(hi, Len(seq)))

\* range(0, stop, step) for step # 0: empty when the step is negative.
range(stop, step) ==
    IF step > 0 /\ stop > 0
    THEN [k \in 1..((stop + step - 1) \div step) |-> (k - 1) * step]
    ELSE <<>>

(***************************************************************************)
(* RAGProcessor.chunk_text.  The result is [exc, chunks]: exc is "none"    *)
(* when the call returned chunks, "ValueError" when range() raised on a    *)
(* zero step.                                                              *)
(***************************************************************************)
Returned(cs) == [exc |-> "none", chunks |-> cs]
Raised(e) == [exc |-> e, chunks |-> <<>>]

\* The for loop over word positions: the slice bounds [from:to] of each
\* window, to not yet clipped to the number of words.
chunk_spans(nwords, size, step) ==
    LET starts == range(nwords, step)
    IN  [k \in DOMAIN starts |-> [from |-> starts[k], to |-> starts[k] + size]]

\* The windows joined, the blank ones skipped.
windows(words, spans) ==
    SelectSeq([k \in DOMAIN spans |-> join(slice(words, spans[k].from, spans[k].to))],
              LAMBDA c : strip(c) # <<>>)

\* A chunker that advances by chunk_size, ignoring the overlap.
chunk_text_no_overlap(t, size, over) ==
    LET words == split(t)
    IN  IF size = 0 THEN Raised("ValueError")
        ELSE Returned(windows(words, chunk_spans(Len(words), size, size)))

\* A chunker that stops before the last, partial window.
chunk_text_drop_tail(t, size, over) ==
    LET words == split(t)
        step == size - over
    IN  IF step = 0 THEN Raised("ValueError")
        ELSE Returned(windows(words, chunk_spans(Len(words) - size + 1, size, step)))

chunk_text(t, size, over) ==
    LET words == split(t)
        step == size - over
    IN  IF step = 0 THEN Raised("ValueError")
        ELSE Returned(windows(words, chunk_spans(Len(words), size, step)))

(***************************************************************************)
(* Documents.  A document's content stands for a text of `words` words     *)
(* that only that body has; a chunk of it is the run of words [from, to).  *)
(* The three uploads are a text with no words, one that the default        *)
(* chunking leaves in one chunk and one that it cuts in two.               *)
(***************************************************************************)
DefaultStep == DefaultChunkSize - DefaultOverlap

Uploads ==
    { [filename |-> "empty.pdf", content |-> [body |-> "e", words |-> 0]],
      [filename |-> "a.pdf", content |-> [body |-> "a", words |-> 1]],
      [filename |-> "b.pdf", content |-> [body |-> "b", words |-> DefaultStep + 1]] }

\* chunk_text(content), with the default chunk_size and overlap, on a
\* content: each window is a run of words, so none is blank.
chunk_content(content) ==
    LET spans == chunk_spans(content.words, DefaultChunkSize, DefaultStep)
    IN  [k \in DOMAIN spans |->
            [body |-> content.body,
             from |-> spans[k].from,
             to |-> Min(spans[k].to, content.words)]]

(***************************************************************************)
(* The embedding model: a fixed function from texts to vectors of two     *)
(* components.  The sentence transformer is outside the repository; this   *)
(* function stands for it and gives the three chunks three directions.     *)
(***************************************************************************)
encode(chunk) ==
    IF chunk.body = "a" THEN <<2, 0>>
    ELSE IF chunk.from = 0 THEN <<0, 2>>
    ELSE <<1, 1>>

\* The embeddings a query can have.
QueryVectors == {<<1, 0>>, <<1, 1>>}

pickle_dumps(v) == [pickled |-> v]
pickle_loads(blob) == blob.pickled

\* The inner product of two vectors.
RECURSIVE DotFrom(_, _, _)
DotFrom(u, v, i) == IF i > Len(u) THEN 0 ELSE u[i] * v[i] + DotFrom(u, v, i + 1)
inner_product(u, v) == DotFrom(u, v, 1)

(***************************************************************************)
(* PDFProcessor: the documents table.                                      *)
(***************************************************************************)
\* INSERT INTO documents: the row gets the next id and the current second.
save_document_to_db(docs, upload, date) ==
    Append(docs, [id |-> Len(docs) + 1,
                  filename |-> upload.filename,
                  content |-> upload.content,
                  upload_date |-> date])

RowOrders(n) ==
    {p \in [1..n -> 1..n] : \A i, j \in 1..n : i # j => p[i] # p[j]}

\* SELECT ... ORDER BY upload_date DESC: every order of the rows that is
\* descending in upload_date; rows of one second come in any order.
get_all_documents(docs) ==
    {[i \in 1..Len(docs) |-> docs[p[i]]] :
        p \in {q \in RowOrders(Len(docs)) :
                 \A i \in 1..(Len(docs) - 1) :
                    docs[q[i]].upload_date >= docs[q[i + 1]].upload_date}}

(***************************************************************************)
(* The two derived files.  A file is absent, whole ("ok") or cut short by  *)
(* a write that failed ("corrupt"); build is the rebuild that wrote it.    *)
(***************************************************************************)
NoIndexFile == [state |-> "absent", build |-> 0, vectors |-> <<>>]
NoChunksFile ==
    [state |-> "absent", build |-> 0,
     chunk_texts |-> <<>>, chunk_ids |-> <<>>, filenames |-> <<>>]

CorruptIndexFile(b) == [state |-> "corrupt", build |-> b, vectors |-> <<>>]
CorruptChunksFile(b) ==
    [state |-> "corrupt", build |-> b,
     chunk_texts |-> <<>>, chunk_ids |-> <<>>, filenames |-> <<>>]

(***************************************************************************)
(* RAGProcessor.update_faiss_index.                                        *)
(***************************************************************************)
\* The faults of a rebuild: the query fails; write_index fails before or
\* after it has opened its file; opening or writing the metadata file fails.
RebuildFaults == {"select", "write_index_open", "write_index_partial",
                  "dump_open", "dump_partial"}

\* SELECT e.embedding_data, c.chunk_text, c.id, d.filename FROM embeddings e
\* JOIN document_chunks c JOIN documents d: one row per embedding whose
\* chunk and document exist, in the order of the embeddings table.
RECURSIVE JoinFrom(_, _, _, _)
JoinFrom(docs, chunks, embs, i) ==
    IF i > Len(embs) THEN <<>>
    ELSE LET e == embs[i]
             cs == {k \in 1..Len(chunks) : chunks[k].id = e.chunk_id}
         IN  IF cs = {} THEN JoinFrom(docs, chunks, embs, i + 1)
             ELSE LET c == chunks[CHOOSE k \in cs : TRUE]
                      ds == {k \in 1..Len(docs) : docs[k].id = c.document_id}
                  IN  IF ds = {} THEN JoinFrom(docs, chunks, embs, i + 1)
                      ELSE <<[embedding_data |-> e.embedding_data,
                              chunk_text |-> c.chunk_text,
                              chunk_id |-> c.id,
                              filename |-> docs[CHOOSE k \in ds : TRUE].filename]>>
                           \o JoinFrom(docs, chunks, embs, i + 1)

select_embeddings(docs, chunks, embs) == JoinFrom(docs, chunks, embs, 1)

\* The index of the loop at lines 118-129: row i is the i-th embedding.
build_index(rows, b) ==
    [state |-> "ok", build |-> b,
     vectors |-> [i \in 1..Len(rows) |-> pickle_loads(rows[i].embedding_data)]]

\* Metadata whose lists run the other way round than the index rows.
build_metadata_reversed(rows, b) ==
    [state |-> "ok", build |-> b,
     chunk_texts |-> [i \in 1..Len(rows) |-> rows[Len(rows) + 1 - i].chunk_text],
     chunk_ids |-> [i \in 1..Len(rows) |-> rows[Len(rows) + 1 - i].chunk_id],
     filenames |-> [i \in 1..Len(rows) |-> rows[Len(rows) + 1 - i].filename]]

\* The metadata of the loop at lines 118-137.
build_metadata(rows, b) ==
    [state |-> "ok", build |-> b,
     chunk_texts |-> [i \in 1..Len(rows) |-> rows[i].chunk_text],
     chunk_ids |-> [i \in 1..Len(rows) |-> rows[i].chunk_id],
     filenames |-> [i \in 1..Len(rows) |-> rows[i].filename]]

\* Whether the rebuild gets as far as writing: the query worked and gave rows.
rebuild_writes(docs, chunks, embs, fault) ==
    fault # "select" /\ select_embeddings(docs, chunks, embs) # <<>>

\* The files after update_faiss_index: [index, meta, builds].  Every
\* exception is caught inside (lines 144-145), so there is no outcome but
\* the files.
update_faiss_index(docs, chunks, embs, idx, meta, nbuilds, fault) ==
    LET rows == select_embeddings(docs, chunks, embs)
        b == nbuilds + 1
    IN  IF ~rebuild_writes(docs, chunks, embs, fault)
        THEN [index |-> idx, meta |-> meta, builds |-> nbuilds]
        ELSE IF fault = "write_index_open"
        THEN [index |-> idx, meta |-> meta, builds |-> b]
        ELSE IF fault = "write_index_partial"
        THEN [index |-> CorruptIndexFile(b), meta |-> meta, builds |-> b]
        ELSE IF fault = "dump_open"
        THEN [index |-> build_index(rows, b), meta |-> meta, builds |-> b]
        ELSE IF fault = "dump_partial"
        THEN [index |-> build_index(rows, b), meta |-> CorruptChunksFile(b), builds |-> b]
        ELSE [index |-> build_index(rows, b), meta |-> build_metadata(rows, b), builds |-> b]

(***************************************************************************)
(* RAGProcessor.process_document_for_rag.                                  *)
(***************************************************************************)
\* The faults before the commit has happened: the at-th chunk insert, the
\* embedding model, the at-th embedding insert, the commit itself.
ProcessFaults == {"chunk_insert", "encode", "embedding_insert", "commit"}

\* The first n chunks inserted: each row takes the next id (lastrowid).
insert_chunks(tbl, document_id, cs, n) ==
    tbl \o [i \in 1..n |->
               [id |-> Len(tbl) + i,
                document_id |-> document_id,
                chunk_text |-> cs[i],
                chunk_index |-> i - 1]]

\* The first n embeddings inserted, paired with the chunk ids by zip.
insert_embeddings(tbl, chunk_ids, vecs, n) ==
    tbl \o [i \in 1..n |->
               [id |-> Len(tbl) + i,
                chunk_id |-> chunk_ids[i],
                embedding_data |-> pickle_dumps(vecs[i])]]

\* The tables as the connection of lines 65-82 sees them when it stops:
\* at the fault, or ready to commit.
process_inserts(chunks, embs, document_id, content, fault, at) ==
    LET cs == chunk_content(content)
        n == Len(cs)
        nc == IF fault = "chunk_insert" THEN at - 1 ELSE n
        ne == IF fault \in {"chunk_insert", "encode"} THEN 0
              ELSE IF fault = "embedding_insert" THEN at - 1
              ELSE n
        chunk_ids == [i \in 1..n |-> Len(chunks) + i]
        vecs == [i \in 1..n |-> encode(cs[i])]
    IN  [chunks |-> insert_chunks(chunks, document_id, cs, nc),
         embeddings |-> insert_embeddings(embs, chunk_ids, vecs, ne)]

\* A connection that autocommits: what it inserted stays.
abort_keeps_rows(committed, inserted) == inserted

\* The except clause of lines 91-93 neither commits nor rolls back: the
\* connection is dropped with its transaction open, and sqlite discards it.
abort_transaction(committed, inserted) == committed

\* The call: the tables and files after it, and the value it returns.
process_document_for_rag(docs, chunks, embs, idx, meta, nbuilds, document_id, content, fault, at) ==
    LET w == process_inserts(chunks, embs, document_id, content, fault, at)
    IN  IF fault \in ProcessFaults
        THEN [chunks |-> abort_transaction(chunks, w.chunks),
              embeddings |-> abort_transaction(embs, w.embeddings),
              index |-> idx, meta |-> meta, builds |-> nbuilds,
              ret |-> FALSE]
        ELSE LET f == update_faiss_index(docs, w.chunks, w.embeddings,
                                         idx, meta, nbuilds, fault)
             IN  [chunks |-> w.chunks,
                  embeddings |-> w.embeddings,
                  index |-> f.index, meta |-> f.meta, builds |-> f.builds,
                  ret |-> TRUE]

\* Whether the fault can happen in this call, at this place.
fault_possible(docs, chunks, embs, document_id, content, fault, at) ==
    LET n == Len(chunk_content(content))
        w == process_inserts(chunks, embs, document_id, content, "none", 1)
    IN  CASE fault \in {"chunk_insert", "embedding_insert"} -> at \in 1..n
          [] fault \in {"none", "encode", "commit", "select"} -> at = 1
          [] OTHER -> at = 1 /\ rebuild_writes(docs, w.chunks, w.embeddings, fault)

(***************************************************************************)
(* RAGProcessor.search_documents.                                          *)
(***************************************************************************)
SearchFaults == {"read_index", "load", "encode"}

\* The score faiss gives the positions it has no neighbour for: the lowest
\* float, here a score below every inner product.
PadScore == -1000

\* seq[i] as Python reads it: from the end when i is negative.
pyindex(seq, i) == IF i >= 0 THEN seq[i + 1] ELSE seq[Len(seq) + i + 1]

\* IndexFlatIP.search(q, k): the k rows of highest inner product, highest
\* first (equal scores in row order), as [score, idx] with idx counted
\* from 0, padded with idx -1 when the index holds fewer than k rows.
faiss_search(vectors, q, k) ==
    LET n == Len(vectors)
        score == [i \in 1..n |-> inner_product(q, vectors[i])]
        place == [i \in 1..n |->
                     1 + Cardinality({j \in 1..n :
                             \/ score[j] > score[i]
                             \/ (score[j] = score[i] /\ j < i)})]
        row == [r \in 1..n |-> CHOOSE i \in 1..n : place[i] = r]
    IN  [r \in 1..k |->
            IF r <= n THEN [score |-> score[row[r]], idx |-> row[r] - 1]
            ELSE [score |-> PadScore, idx |-> -1]]

\* The loop of lines 162-171 from position i on: a position is kept when
\* its idx is below the number of chunk texts, with rank i.
RECURSIVE collect_results(_, _, _)
collect_results(found, meta, i) ==
    IF i > Len(found) THEN <<>>
    ELSE (IF found[i].idx < Len(meta.chunk_texts)
          THEN <<[chunk_text |-> pyindex(meta.chunk_texts, found[i].idx),
                  filename |-> pyindex(meta.filenames, found[i].idx),
                  chunk_id |-> pyindex(meta.chunk_ids, found[i].idx),
                  similarity_score |-> found[i].score,
                  rank |-> i]>>
          ELSE <<>>)
         \o collect_results(found, meta, i + 1)

\* What a handler gave: whether it raised, the boolean it returned, the
\* hits it returned, and the builds of the files a search has read.
Outcome(raised, ok, hits, ri, rm) ==
    [raised |-> raised, ok |-> ok, hits |-> hits, read_index |-> ri, read_meta |-> rm]

\* Lines 154-173, inside the try.
search_try(idx, meta, q, top_k, fault) ==
    IF idx.state = "corrupt" \/ fault = "read_index"
    THEN Outcome(TRUE, FALSE, <<>>, 0, 0)
    ELSE IF meta.state = "corrupt" \/ fault = "load"
    THEN Outcome(TRUE, FALSE, <<>>, idx.build, 0)
    ELSE IF fault = "encode"
    THEN Outcome(TRUE, FALSE, <<>>, idx.build, meta.build)
    ELSE Outcome(FALSE, TRUE,
                 collect_results(faiss_search(idx.vectors, q, top_k), meta, 1),
                 idx.build, meta.build)

\* A handler that lets the exception through.
search_reraise(r) == r

\* Lines 175-177: an exception becomes the empty list.
search_except(r) == IF r.raised THEN [r EXCEPT !.raised = FALSE, !.hits = <<>>] ELSE r

search_documents(idx, meta, q, top_k, fault) ==
    IF idx.state = "absent" \/ meta.state = "absent"
    THEN Outcome(FALSE, TRUE, <<>>, 0, 0)
    ELSE search_except(search_try(idx, meta, q, top_k, fault))

(***************************************************************************)
(* The application.  It starts on an empty database with neither file;     *)
(* one handler runs to its end before the next starts.                     *)
(***************************************************************************)
MaxDocs == 2
MaxTopK == 2
MaxFaults == 1

NoContent == [body |-> "", words |-> 0]

\* A handler's run: which handler, the failure it met ("none": none), the
\* document id and content it processed, the top_k it searched with.
Call(op, fault, document_id, content, top_k) ==
    [op |-> op, fault |-> fault, document_id |-> document_id,
     content |-> content, top_k |-> top_k]

StoreInit ==
    /\ documents = <<>>
    /\ document_chunks = <<>>
    /\ embeddings = <<>>
    /\ index_file = NoIndexFile
    /\ chunks_file = NoChunksFile
    /\ builds = 0
    /\ faults = 0
    /\ call = Call("none", "none", 0, NoContent, 0)
    /\ result = Outcome(FALSE, TRUE, <<>>, 0, 0)

ChunkerIdle ==
    /\ text = <<>>
    /\ chunk_size = DefaultChunkSize
    /\ overlap = DefaultOverlap
    /\ chunked = Returned(<<>>)
    /\ pc = "done"

Init == StoreInit /\ ChunkerIdle

\* CURRENT_TIMESTAMP, in seconds: the second of the last save or the next.
NextDates(docs) ==
    IF docs = <<>> THEN {0}
    ELSE {docs[Len(docs)].upload_date, docs[Len(docs)].upload_date + 1}

\* Where a run of process_document_for_rag can fail: <<fault, at>>.
FaultPoints ==
    ({"none", "encode", "commit"} \cup RebuildFaults) \X {1}
    \cup ({"chunk_insert", "embedding_insert"} \X (1..2))

\* "Save to Database" when save_document_to_db fails: nothing is processed.
SaveFails ==
    /\ Len(documents) < MaxDocs
    /\ faults < MaxFaults
    /\ faults' = faults + 1
    /\ \E upload \in Uploads :
          call' = Call("save", "save_insert", 0, upload.content, 0)
    /\ result' = Outcome(FALSE, FALSE, <<>>, 0, 0)
    /\ UNCHANGED <<chunker_vars, store_vars>>

\* "Save to Database" (app.py 151-162): the document is saved, the first
\* document of get_all_documents is taken for the one just saved, and the
\* content is processed under its id.
SaveToDatabase ==
    /\ Len(documents) < MaxDocs
    /\ \E upload \in Uploads, date \in NextDates(documents), fp \in FaultPoints :
          LET fault == fp[1]
              at == fp[2]
              docs == save_document_to_db(documents, upload, date)
          IN  /\ fault # "none" => faults < MaxFaults
              /\ \E latest_doc \in {listed[1] : listed \in get_all_documents(docs)} :
                  \E r \in {process_document_for_rag(
                                 docs, document_chunks, embeddings,
                                 index_file, chunks_file, builds,
                                 latest_doc.id, upload.content, fault, at)} :
                        /\ fault_possible(docs, document_chunks, embeddings,
                                          latest_doc.id, upload.content, fault, at)
                        /\ documents' = docs
                        /\ document_chunks' = r.chunks
                        /\ embeddings' = r.embeddings
                        /\ index_file' = r.index
                        /\ chunks_file' = r.meta
                        /\ builds' = r.builds
                        /\ faults' = IF fault = "none" THEN faults ELSE faults + 1
                        /\ call' = Call("save", fault, latest_doc.id, upload.content, 0)
                        /\ result' = Outcome(FALSE, r.ret, <<>>, 0, 0)
    /\ UNCHANGED chunker_vars

\* The searches: every query embedding and top_k without a failure, and
\* one search for each failure.
SearchInputs ==
    (QueryVectors \X (1..MaxTopK) \X {"none"})
    \cup ({<<1, 1>>} \X {1} \X SearchFaults)

\* "Search Documents" and "Ask RAG": search_documents(query, top_k).
SearchDocuments ==
    /\ \E in \in SearchInputs :
          LET q == in[1]
              top_k == in[2]
              fault == in[3]
          IN  /\ fault # "none" => /\ faults < MaxFaults
                                   /\ index_file.state # "absent"
                                   /\ chunks_file.state # "absent"
              /\ faults' = IF fault = "none" THEN faults ELSE faults + 1
              /\ call' = Call("search", fault, 0, NoContent, top_k)
              /\ result' = search_documents(index_file, chunks_file, q, top_k, fault)
    /\ UNCHANGED <<chunker_vars, store_vars>>

Next == SaveFails \/ SaveToDatabase \/ SearchDocuments

Spec == Init /\ [][Next]_vars

(***************************************************************************)
(* The chunker on its own: every text over a small alphabet, every         *)
(* chunk_size and overlap within the bounds, the defaults, and the         *)
(* scenario of the specification.                                          *)
(***************************************************************************)
Alphabet == {"a", "b", " ", "\n"}

Texts == UNION {[1..n -> Alphabet] : n \in 0..MaxLen}

FoxText ==
    << "T", "h", "e", " ", "q", "u", "i", "c", "k", " ", "b", "r",
       "o", "w", "n", " ", "f", "o", "x", " ", "j", "u", "m", "p",
       "s", " ", "o", "v", "e", "r", " ", "t", "h", "e", " ", "l",
       "a", "z", "y", " ", "d", "o", "g" >>

\* The scenario's chunks as the specification lists them.
FoxChunksListed ==
    << << "T", "h", "e", " ", "q", "u", "i", "c", "k", " ", "b", "r",
          "o", "w", "n", " ", "f", "o", "x", " ", "j", "u", "m", "p",
          "s" >>,
       << "f", "o", "x", " ", "j", "u", "m", "p", "s", " ", "o", "v",
          "e", "r", " ", "t", "h", "e", " ", "l", "a", "z", "y" >>,
       << "l", "a", "z", "y", " ", "d", "o", "g" >> >>

\* The same with the third chunk starting at word 6, "the".
FoxChunksOfWindows ==
    << FoxChunksListed[1],
       FoxChunksListed[2],
       << "t", "h", "e", " ", "l", "a", "z", "y", " ", "d", "o", "g" >> >>

ChunkCalls ==
    (Texts \X (1..MaxChunkSize) \X (0..(MaxChunkSize + 1)))
    \cup (Texts \X {DefaultChunkSize} \X {DefaultOverlap})
    \cup {<<FoxText, 5, 2>>}

ChunkInit ==
    /\ \E c \in ChunkCalls :
          /\ text = c[1]
          /\ chunk_size = c[2]
          /\ overlap = c[3]
    /\ chunked = Returned(<<>>)
    /\ pc = "call"
    /\ StoreInit

ChunkText ==
    /\ pc = "call"
    /\ chunked' = chunk_text(text, chunk_size, overlap)
    /\ pc' = "done"
    /\ UNCHANGED <<text, chunk_size, overlap, store_vars, faults, call, result>>

ChunkNext == ChunkText

ChunkSpec == ChunkInit /\ [][ChunkNext]_vars

(***************************************************************************)
(* Properties of chunk_text, read in the states where the call is over.    *)
(***************************************************************************)
ValidConfig == chunk_size > overlap /\ overlap >= 0

\* The number of words of a chunk.
WordCount(c) == Len(split(c))

\* The last n words of chunk a are the first n words of chunk b.
SharesWords(a, b, n) ==
    LET wa == split(a)
        wb == split(b)
    IN  /\ Len(wa) >= n
        /\ Len(wb) >= n
        /\ SubSeq(wa, Len(wa) - n + 1, Len(wa)) = SubSeq(wb, 1, n)

\* The chunks cs are runs of consecutive words of ws, taken at
\* non-decreasing positions, and every word of ws lies in one of them.
Covers(ws, cs) ==
    \E s \in [1..Len(cs) -> 1..Len(ws)] :
        /\ \A k \in 1..Len(cs) :
              /\ s[k] + WordCount(cs[k]) - 1 <= Len(ws)
              /\ split(cs[k]) = SubSeq(ws, s[k], s[k] + WordCount(cs[k]) - 1)
        /\ \A k \in 1..(Len(cs) - 1) : s[k] <= s[k + 1]
        /\ \A i \in 1..Len(ws) :
              \E k \in 1..Len(cs) : s[k] <= i /\ i <= s[k] + WordCount(cs[k]) - 1

\* C5: a call with overlap >= chunk_size either signals an error or returns
\* the chunks of the call with overlap = chunk_size - 1.
C5_OverlapGuarded ==
    (pc = "done" /\ overlap >= chunk_size) =>
        \/ chunked.exc # "none"
        \/ chunked = chunk_text(text, chunk_size, chunk_size - 1)

\* C7 as stated: with chunk_size > overlap >= 0, every pair of consecutive
\* chunks shares exactly overlap words, except possibly the pair whose later
\* chunk is the final one.
C7_OverlapExceptFinal ==
    (pc = "done" /\ ValidConfig) =>
        \A k \in 1..(Len(chunked.chunks) - 2) :
            SharesWords(chunked.chunks[k], chunked.chunks[k + 1], overlap)

\* C7 as amended: with chunk_size > overlap >= 0, every pair of consecutive
\* chunks whose earlier chunk holds chunk_size words shares exactly overlap
\* words.
C7_OverlapOfFullChunks ==
    (pc = "done" /\ ValidConfig) =>
        /\ chunked.exc = "none"
        /\ \A k \in 1..(Len(chunked.chunks) - 1) :
              WordCount(chunked.chunks[k]) = chunk_size =>
                  SharesWords(chunked.chunks[k], chunked.chunks[k + 1], overlap)

\* Three chunks of an overlapping configuration, the first one full.
C7_Witness ==
    /\ pc = "done"
    /\ ValidConfig
    /\ overlap >= 1
    /\ Len(chunked.chunks) >= 3
    /\ WordCount(chunked.chunks[1]) = chunk_size

\* C8: with chunk_size > overlap >= 0 the chunks cover every word of the
\* text, in document order, and no chunk is empty.
C8_CoversEveryWord ==
    (pc = "done" /\ ValidConfig) =>
        /\ chunked.exc = "none"
        /\ \A k \in 1..Len(chunked.chunks) : strip(chunked.chunks[k]) # <<>>
        /\ Covers(split(text), chunked.chunks)

\* A text of several words cut into several chunks, the last one partial.
C8_Witness ==
    /\ pc = "done"
    /\ ValidConfig
    /\ Len(split(text)) >= 3
    /\ Len(chunked.chunks) >= 2
    /\ WordCount(chunked.chunks[Len(chunked.chunks)]) < chunk_size

\* C9 as stated: the nine-word scenario with chunk_size 5 and overlap 2 gives
\* the chunks "The quick brown fox jumps", "fox jumps over the lazy" and
\* "lazy dog".
C9_FoxScenarioListed ==
    (pc = "done" /\ text = FoxText /\ chunk_size = 5 /\ overlap = 2) =>
        chunked = Returned(FoxChunksListed)

\* C9 as amended: the scenario gives three chunks, of the windows that start
\* at words 0, 3 and 6, and the third is "the lazy dog".
C9_FoxScenarioWindows ==
    (pc = "done" /\ text = FoxText /\ chunk_size = 5 /\ overlap = 2) =>
        /\ chunked = Returned(FoxChunksOfWindows)
        /\ range(Len(split(text)), chunk_size - overlap) = <<0, 3, 6>>

C9_Witness ==
    pc = "done" /\ text = FoxText /\ chunk_size = 5 /\ overlap = 2

(***************************************************************************)
(* Properties of the application, read off the last handler that ran.      *)
(***************************************************************************)
Searched == call.op = "search"
Processed == call.op = "save" /\ call.fault # "save_insert"

\* The two files are whole and of one rebuild.
MatchedPair ==
    /\ index_file.state = "ok"
    /\ chunks_file.state = "ok"
    /\ index_file.build = chunks_file.build

\* C1: a search without failure against a matched index of N >= 1 chunks
\* returns min(top_k, N) results, each of a different chunk; against one
\* chunk it returns one result, of rank 1.
C1_TopKClamped ==
    (Searched /\ call.fault = "none" /\ MatchedPair) =>
        LET n == Len(index_file.vectors)
            hits == result.hits
        IN  /\ Len(hits) = Min(call.top_k, n)
            /\ \A i, j \in 1..Len(hits) : i # j => hits[i].chunk_id # hits[j].chunk_id
            /\ n = 1 => (Len(hits) = 1 /\ hits[1].rank = 1)

\* C2: a search never reads the index of one rebuild together with the
\* metadata of another.
C2_SearchReadsMatchedPair ==
    (Searched /\ result.read_index # 0 /\ result.read_meta # 0) =>
        result.read_index = result.read_meta

\* C3: a run of process_document_for_rag that fails before its commit leaves
\* document_chunks and embeddings as they were; a run that gets past the
\* commit has stored one chunk row and one embedding row for every chunk.
C3_AllRowsOrNone ==
    [][/\ (call'.op = "save" /\ call'.fault \in ProcessFaults) =>
            /\ document_chunks' = document_chunks
            /\ embeddings' = embeddings
       /\ (call'.op = "save" /\ call'.fault \notin ProcessFaults \cup {"save_insert"}) =>
            LET n == Len(chunk_content(call'.content))
            IN  /\ Len(document_chunks') = Len(document_chunks) + n
                /\ Len(embeddings') = Len(embeddings) + n
                /\ SubSeq(document_chunks', 1, Len(document_chunks)) = document_chunks
                /\ SubSeq(embeddings', 1, Len(embeddings)) = embeddings
      ]_vars

\* A document of two chunks whose embedding insert failed, after its chunk
\* rows had been inserted, in a database that held rows already.
C3_Witness ==
    /\ Processed
    /\ call.fault = "embedding_insert"
    /\ Len(chunk_content(call.content)) = 2
    /\ document_chunks # <<>>
    /\ ~result.ok

\* C4: a run of process_document_for_rag that meets a failure at any step,
\* the index rebuild and its file writes included, returns False and
\* raises nothing; it returns True only when no step failed.
C4_FailureReturnsFalse ==
    Processed =>
        /\ ~result.raised
        /\ result.ok <=> call.fault = "none"

\* C6: search_documents never raises, and it returns the empty list when a
\* file is missing, when reading a file fails and when embedding the query
\* fails.
C6_SearchNeverRaises ==
    Searched =>
        /\ ~result.raised
        /\ (\/ index_file.state # "ok"
            \/ chunks_file.state # "ok"
            \/ call.fault # "none") => result.hits = <<>>

\* A search whose metadata load failed, both files being whole.
C6_Witness ==
    /\ Searched
    /\ call.fault = "load"
    /\ index_file.state = "ok"
    /\ chunks_file.state = "ok"

\* C10: in every list a search returns the scores are non-increasing and
\* the ranks are 1, 2, ..., n in list order.
C10_RanksAndScores ==
    Searched =>
        \A i \in 1..Len(result.hits) :
            /\ result.hits[i].rank = i
            /\ i < Len(result.hits) =>
                  result.hits[i].similarity_score >= result.hits[i + 1].similarity_score

\* The last handler ran process_document_for_rag to its end and its
\* rebuild wrote both files.
RebuildCompleted ==
    /\ Processed
    /\ call.fault = "none"
    /\ select_embeddings(documents, document_chunks, embeddings) # <<>>

\* Position i of the metadata describes the chunk whose embedding is row i
\* of the index: chunk_ids[i] is the id of a stored chunk with the text
\* chunk_texts[i], of the document named filenames[i], and row i is the
\* stored embedding of that chunk.
AlignedAt(i) ==
    \E c \in 1..Len(document_chunks) :
        /\ document_chunks[c].id = chunks_file.chunk_ids[i]
        /\ document_chunks[c].chunk_text = chunks_file.chunk_texts[i]
        /\ \E d \in 1..Len(documents) :
              /\ documents[d].id = document_chunks[c].document_id
              /\ documents[d].filename = chunks_file.filenames[i]
        /\ \E e \in 1..Len(embeddings) :
              /\ embeddings[e].chunk_id = document_chunks[c].id
              /\ pickle_loads(embeddings[e].embedding_data) = index_file.vectors[i]

\* C11: after a completed update_faiss_index the index and the three
\* metadata lists have one length, and every position of the metadata
\* describes the chunk whose embedding is that row of the index.
C11_MetadataAligned ==
    RebuildCompleted =>
        /\ MatchedPair
        /\ Len(chunks_file.chunk_texts) = Len(index_file.vectors)
        /\ Len(chunks_file.chunk_ids) = Len(index_file.vectors)
        /\ Len(chunks_file.filenames) = Len(index_file.vectors)
        /\ \A i \in 1..Len(index_file.vectors) : AlignedAt(i)

\* A completed rebuild over the chunks of two documents of different names.
C11_Witness ==
    /\ RebuildCompleted
    /\ Len(index_file.vectors) >= 3
    /\ \E i, j \in 1..Len(chunks_file.filenames) :
          chunks_file.filenames[i] # chunks_file.filenames[j]

\* C12: every stored chunk carries the id of the document whose text it was
\* cut from.
C12_ChunkOwnedBySource ==
    \A c \in 1..Len(document_chunks) :
        \E d \in 1..Len(documents) :
            /\ documents[d].id = document_chunks[c].document_id
            /\ documents[d].content.body = document_chunks[c].chunk_text.body

====
